---- MODULE Spec2Model ----
(***************************************************************************)
(* Model of package gate (src/gate.go): a Gate is a buffered channel g.c   *)
(* of empty structs used as a counting semaphore, plus a mutex g.m that    *)
(* serialises Wait calls.  A channel of struct{} carries no data, so its   *)
(* state is its capacity cap(g.c) and the number of buffered tokens        *)
(* len(g.c).  Goroutines are modelled by a program counter per thread;     *)
(* every channel send, channel receive, mutex operation, range check and   *)
(* loop exit of the source is one atomic step.                             *)
(***************************************************************************)
EXTENDS Integers, FiniteSets, Sequences, TLC

(* ---------------------------------------------------------------------- *)
(* Bounds of the model                                                     *)
(* ---------------------------------------------------------------------- *)

\* number of goroutines using the Gate
NumThreads == 2

\* largest capacity handed to New
MaxCap == 2

\* width of the machine integer type `int` in the model (64 in the build)
IntBits == 3

\* how many release calls of a run may come without matching acquires
MaxMisuse == 1

Threads == 1..NumThreads

(* ---------------------------------------------------------------------- *)
(* Machine integers: Go's int wraps around on overflow                     *)
(* ---------------------------------------------------------------------- *)

MinInt == 0 - 2 ^ (IntBits - 1)

MaxInt == 2 ^ (IntBits - 1) - 1

IntRange == MinInt..MaxInt

\* the value of a mathematical integer x stored in an int
Wrap(x) == ((x - MinInt) % 2 ^ IntBits) + MinInt

\* unary minus on int, as in `-n` (the minimum integer negates to itself)
Neg(n) == Wrap(0 - n)

(* ---------------------------------------------------------------------- *)
(* State                                                                   *)
(* ---------------------------------------------------------------------- *)

VARIABLES
    gate,    \* "nil" before New, "ok" once New returned a Gate, "panic" if New panicked
    newArg,  \* the argument max of the call of New
    capc,    \* cap(g.c)
    c,       \* len(g.c): tokens buffered in the channel
    m,       \* g.m: 0 when unlocked, else the thread holding it
    pc,      \* pc[t]: where thread t is in its current call
    arg,     \* arg[t]: the argument n of t's current Add call
    i,       \* i[t]: the loop variable of t's current Add or Wait call
    owned,   \* owned[t]: sends minus receives done by t so far (units t holds)
    base,    \* base[t]: owned[t] when t's current call began
    misuse,  \* number of release calls made so far without matching acquires
    onEmpty  \* threads whose pending receive was begun on an empty channel

vars == <<gate, newArg, capc, c, m, pc, arg, i, owned, base, misuse, onEmpty>>

\* every release so far was preceded by matching acquires of the same thread
Paired == misuse = 0

RECURSIVE SumOwned(_)
SumOwned(S) ==
    IF S = {} THEN 0
    ELSE LET t == CHOOSE x \in S : TRUE
         IN  owned[t] + SumOwned(S \ {t})

Init ==
    /\ gate = "nil"
    /\ newArg = 0
    /\ capc = 0
    /\ c = 0
    /\ m = 0
    /\ pc = [t \in Threads |-> "idle"]
    /\ arg = [t \in Threads |-> 0]
    /\ i = [t \in Threads |-> 0]
    /\ owned = [t \in Threads |-> 0]
    /\ base = [t \in Threads |-> 0]
    /\ misuse = 0
    /\ onEmpty = {}

(* ---------------------------------------------------------------------- *)
(* New                                                                     *)
(* ---------------------------------------------------------------------- *)

\* make(chan struct{}, max) panics for a negative size and makes an
\* unbuffered channel for size 0
MakeChanPanics(max) == max < 0

New(max) ==
    /\ gate = "nil"
    /\ newArg' = max
    /\ IF MakeChanPanics(max)
       THEN /\ gate' = "panic"
            /\ capc' = capc
       ELSE /\ gate' = "ok"
            /\ capc' = max
    /\ UNCHANGED <<c, m, pc, arg, i, owned, base, misuse, onEmpty>>

(* ---------------------------------------------------------------------- *)
(* Channel operations on g.c                                               *)
(* ---------------------------------------------------------------------- *)

\* mutant: the buffer takes one token more than its capacity
ChanHasRoomOffByOne == c <= capc

\* a send on a buffered channel proceeds when the buffer has room
ChanHasRoom == c < capc

\* mutant: a receive does not block on an empty buffer
ChanHasTokenOrNone == c >= 0

\* a receive on a buffered channel proceeds when the buffer holds a token
ChanHasToken == c > 0

\* thread t completes `g.c <- struct{}{}` into the buffer
BufSend(t) ==
    /\ ChanHasRoom
    /\ c' = c + 1
    /\ owned' = [owned EXCEPT ![t] = @ + 1]

\* thread t completes `<-g.c` from the buffer
BufRecv(t) ==
    /\ ChanHasToken
    /\ c' = c - 1
    /\ owned' = [owned EXCEPT ![t] = @ - 1]

\* thread t's call returns: its locals n and i are gone
Return(t) ==
    /\ pc' = [pc EXCEPT ![t] = "idle"]
    /\ arg' = [arg EXCEPT ![t] = 0]
    /\ i' = [i EXCEPT ![t] = 0]
    /\ onEmpty' = onEmpty \ {t}

(* ---------------------------------------------------------------------- *)
(* Calls                                                                   *)
(* ---------------------------------------------------------------------- *)

\* the range check of Add: `n > c || -n > c` panics, with c = cap(g.c)
AddOutOfRange(n) == n > capc \/ Neg(n) > capc

\* units the call op(n) is about to release
Releases(op, n) ==
    IF op \in {"Unlock", "Done"} THEN 1
    ELSE IF op = "Add" /\ ~AddOutOfRange(n) /\ n <= 0 /\ Neg(n) > 0 THEN Neg(n)
    ELSE 0

\* thread t, between calls, enters a call
Enter(t) ==
    /\ gate = "ok"
    /\ pc[t] = "idle"
    /\ base' = [base EXCEPT ![t] = owned[t]]

\* thread t enters Lock, Unlock, Done or Wait and reaches its first statement
Begin(t, op) ==
    /\ Enter(t)
    /\ pc' = [pc EXCEPT ![t] = op]
    /\ onEmpty' = IF op \in {"Unlock", "Done"} /\ c = 0 THEN onEmpty \cup {t} ELSE onEmpty
    /\ UNCHANGED <<gate, newArg, capc, c, m, arg, i, owned>>

\* Add, line 54-58: thread t enters Add(n); the range check panics or
\* chooses the loop, whose variable i starts at 0
BeginAdd(t, n) ==
    /\ Enter(t)
    /\ pc' = [pc EXCEPT ![t] =
                 IF AddOutOfRange(n) THEN "panicked"
                 ELSE IF n > 0 THEN "AddSend"
                 ELSE "AddRecv"]
    /\ arg' = [arg EXCEPT ![t] = n]
    /\ i' = [i EXCEPT ![t] = 0]
    /\ onEmpty' = IF pc'[t] = "AddRecv" /\ 0 < Neg(n) /\ c = 0
                  THEN onEmpty \cup {t} ELSE onEmpty
    /\ UNCHANGED <<gate, newArg, capc, c, m, owned>>

\* a call by a thread that keeps the contract: it releases only what it holds
Call(t, op) ==
    /\ owned[t] >= Releases(IF op = "WaitLock" THEN "Wait" ELSE op, 0)
    /\ Begin(t, op)
    /\ UNCHANGED misuse

CallAdd(t, n) ==
    /\ owned[t] >= Releases("Add", n)
    /\ BeginAdd(t, n)
    /\ UNCHANGED misuse

\* a release call by a thread that does not hold the units it releases
OverRelease(t, op) ==
    /\ owned[t] < Releases(op, 0)
    /\ misuse < MaxMisuse
    /\ misuse' = misuse + 1
    /\ Begin(t, op)

OverReleaseAdd(t, n) ==
    /\ owned[t] < Releases("Add", n)
    /\ misuse < MaxMisuse
    /\ misuse' = misuse + 1
    /\ BeginAdd(t, n)

\* mutant: Lock does not block on a full channel
LockStepWhenFull(t) ==
    /\ pc[t] = "Lock"
    /\ c <= capc
    /\ c' = c + 1
    /\ owned' = [owned EXCEPT ![t] = @ + 1]
    /\ pc' = [pc EXCEPT ![t] = "idle"]
    /\ base' = [base EXCEPT ![t] = owned'[t]]
    /\ UNCHANGED <<gate, newArg, capc, m, arg, i, misuse, onEmpty>>

\* mutant: Lock goes through the mutex that Wait holds
LockStepUnderMutex(t) ==
    /\ pc[t] = "Lock"
    /\ m = 0
    /\ c < capc
    /\ c' = c + 1
    /\ owned' = [owned EXCEPT ![t] = @ + 1]
    /\ pc' = [pc EXCEPT ![t] = "idle"]
    /\ base' = [base EXCEPT ![t] = owned'[t]]
    /\ UNCHANGED <<gate, newArg, capc, m, arg, i, misuse, onEmpty>>

\* func (g *Gate) Lock() { g.c <- struct{}{} }
LockStep(t) ==
    /\ pc[t] = "Lock"
    /\ BufSend(t)
    /\ Return(t)
    /\ base' = [base EXCEPT ![t] = owned'[t]]
    /\ UNCHANGED <<gate, newArg, capc, m, misuse>>

\* func (g *Gate) Unlock() { <-g.c }
UnlockStep(t) ==
    /\ pc[t] = "Unlock"
    /\ BufRecv(t)
    /\ Return(t)
    /\ base' = [base EXCEPT ![t] = owned'[t]]
    /\ UNCHANGED <<gate, newArg, capc, m, misuse>>

\* func (g *Gate) Done() { <-g.c }
DoneStep(t) ==
    /\ pc[t] = "Done"
    /\ BufRecv(t)
    /\ Return(t)
    /\ base' = [base EXCEPT ![t] = owned'[t]]
    /\ UNCHANGED <<gate, newArg, capc, m, misuse>>

\* mutant: the acquiring loop of Add runs once more
AddSendMoreOffByOne(t) == i[t] <= arg[t]

\* loop condition of `for i := 0; i < n; i++`
AddSendMore(t) == i[t] < arg[t]

\* mutant: the releasing loop of Add runs once more
AddRecvMoreOffByOne(t) == i[t] <= Neg(arg[t])

\* loop condition of `for i := 0; i < (-n); i++`
AddRecvMore(t) == i[t] < Neg(arg[t])

\* mutant: the acquiring loop of Add sends into a full channel
AddSendWhenFull(t) ==
    /\ pc[t] = "AddSend"
    /\ AddSendMore(t)
    /\ c <= capc
    /\ c' = c + 1
    /\ owned' = [owned EXCEPT ![t] = @ + 1]
    /\ i' = [i EXCEPT ![t] = @ + 1]
    /\ UNCHANGED <<gate, newArg, capc, m, pc, arg, base, misuse, onEmpty>>

\* Add, line 59-61: one iteration of the acquiring loop
AddSend(t) ==
    /\ pc[t] = "AddSend"
    /\ AddSendMore(t)
    /\ BufSend(t)
    /\ i' = [i EXCEPT ![t] = @ + 1]
    /\ UNCHANGED <<gate, newArg, capc, m, pc, arg, base, misuse, onEmpty>>

\* Add, line 64-66: one iteration of the releasing loop
AddRecv(t) ==
    /\ pc[t] = "AddRecv"
    /\ AddRecvMore(t)
    /\ BufRecv(t)
    /\ i' = [i EXCEPT ![t] = @ + 1]
    /\ onEmpty' = IF i'[t] < Neg(arg[t]) /\ c' = 0
                  THEN onEmpty \cup {t} ELSE onEmpty \ {t}
    /\ UNCHANGED <<gate, newArg, capc, m, pc, arg, base, misuse>>

\* Add returns when its loop condition fails (line 62 and line 67)
AddReturn(t) ==
    /\ \/ pc[t] = "AddSend" /\ ~AddSendMore(t)
       \/ pc[t] = "AddRecv" /\ ~AddRecvMore(t)
    /\ Return(t)
    /\ base' = [base EXCEPT ![t] = owned[t]]
    /\ UNCHANGED <<gate, newArg, capc, c, m, owned, misuse>>

\* mutant: Wait does not take the mutex
MutexIgnored == TRUE

\* g.m.Lock() proceeds when the mutex is unlocked
MutexFree == m = 0

\* Wait, line 75: g.m.Lock()
WaitLock(t) ==
    /\ pc[t] = "WaitLock"
    /\ MutexFree
    /\ m' = t
    /\ pc' = [pc EXCEPT ![t] = "WaitSend"]
    /\ i' = [i EXCEPT ![t] = 0]
    /\ UNCHANGED <<gate, newArg, capc, c, arg, owned, base, misuse, onEmpty>>

\* mutant: Wait acquires one unit too few
WaitSendMoreShort(t) == i[t] < capc - 1

\* loop condition of the acquiring loop of Wait: `i < cap(g.c)`
WaitSendMore(t) == i[t] < capc

\* mutant: Wait releases one unit too few
WaitRecvMoreShort(t) == i[t] < capc - 1

\* mutant: Wait releases one unit too many
WaitRecvMoreOffByOne(t) == i[t] <= capc

\* loop condition of the releasing loop of Wait: `i < cap(g.c)`
WaitRecvMore(t) == i[t] < capc

\* Wait, line 77-79: one iteration of the acquiring loop
WaitSend(t) ==
    /\ pc[t] = "WaitSend"
    /\ WaitSendMore(t)
    /\ BufSend(t)
    /\ i' = [i EXCEPT ![t] = @ + 1]
    /\ UNCHANGED <<gate, newArg, capc, m, pc, arg, base, misuse, onEmpty>>

\* Wait, line 77 to line 80: the acquiring loop ends, the releasing loop begins
WaitSendExit(t) ==
    /\ pc[t] = "WaitSend"
    /\ ~WaitSendMore(t)
    /\ pc' = [pc EXCEPT ![t] = "WaitRecv"]
    /\ i' = [i EXCEPT ![t] = 0]
    /\ UNCHANGED <<gate, newArg, capc, c, m, arg, owned, base, misuse, onEmpty>>

\* Wait, line 80-82: one iteration of the releasing loop
WaitRecv(t) ==
    /\ pc[t] = "WaitRecv"
    /\ WaitRecvMore(t)
    /\ BufRecv(t)
    /\ i' = [i EXCEPT ![t] = @ + 1]
    /\ UNCHANGED <<gate, newArg, capc, m, pc, arg, base, misuse, onEmpty>>

\* Wait, line 80 to line 83: the releasing loop ends
WaitRecvExit(t) ==
    /\ pc[t] = "WaitRecv"
    /\ ~WaitRecvMore(t)
    /\ pc' = [pc EXCEPT ![t] = "WaitUnlock"]
    /\ UNCHANGED <<gate, newArg, capc, c, m, arg, i, owned, base, misuse, onEmpty>>

\* mutant: Wait returns without unlocking the mutex
WaitUnlockLeak(t) ==
    /\ pc[t] = "WaitUnlock"
    /\ m' = m
    /\ Return(t)
    /\ base' = [base EXCEPT ![t] = owned[t]]
    /\ UNCHANGED <<gate, newArg, capc, c, owned, misuse>>

\* Wait, line 76 run at return: the deferred g.m.Unlock()
WaitUnlock(t) ==
    /\ pc[t] = "WaitUnlock"
    /\ m' = 0
    /\ Return(t)
    /\ base' = [base EXCEPT ![t] = owned[t]]
    /\ UNCHANGED <<gate, newArg, capc, c, owned, misuse>>

\* On the unbuffered channel New(0) makes, a send completes only together
\* with a receive of another goroutine.  With cap(g.c) = 0 the loops of Wait
\* do not run and Add panics for every n but 0, so the only senders are
\* Lock calls and the only receivers are Unlock and Done calls.
Handoff(s, r) ==
    /\ capc = 0
    /\ s # r
    /\ pc[s] = "Lock"
    /\ pc[r] \in {"Unlock", "Done"}
    /\ owned' = [owned EXCEPT ![s] = @ + 1, ![r] = @ - 1]
    /\ pc' = [pc EXCEPT ![s] = "idle", ![r] = "idle"]
    /\ base' = [base EXCEPT ![s] = owned'[s], ![r] = owned'[r]]
    /\ onEmpty' = onEmpty \ {s, r}
    /\ UNCHANGED <<gate, newArg, capc, c, m, arg, i, misuse>>

Next ==
    \/ \E max \in (0 - MaxCap)..MaxCap : New(max)
    \/ \E t \in Threads : Call(t, "Lock")
    \/ \E t \in Threads : Call(t, "Unlock")
    \/ \E t \in Threads : Call(t, "Done")
    \/ \E t \in Threads : LockStep(t)
    \/ \E t \in Threads : UnlockStep(t)
    \/ \E t \in Threads : DoneStep(t)
    \/ \E t \in Threads : \E n \in IntRange : CallAdd(t, n)
    \/ \E t \in Threads : AddSend(t)
    \/ \E t \in Threads : AddRecv(t)
    \/ \E t \in Threads : AddReturn(t)
    \/ \E t \in Threads : Call(t, "WaitLock")
    \/ \E t \in Threads : WaitLock(t)
    \/ \E t \in Threads : WaitSend(t)
    \/ \E t \in Threads : WaitSendExit(t)
    \/ \E t \in Threads : WaitRecv(t)
    \/ \E t \in Threads : WaitRecvExit(t)
    \/ \E t \in Threads : WaitUnlock(t)

Spec == Init /\ [][Next]_vars

\* the program with callers that may release units they do not hold
NextAny ==
    \/ Next
    \/ \E t \in Threads : OverRelease(t, "Unlock")
    \/ \E t \in Threads : OverRelease(t, "Done")
    \/ \E t \in Threads : \E n \in IntRange : OverReleaseAdd(t, n)
    \/ \E s \in Threads : \E r \in Threads : Handoff(s, r)

SpecAny == Init /\ [][NextAny]_vars

(* ---------------------------------------------------------------------- *)
(* Properties                                                              *)
(* ---------------------------------------------------------------------- *)

\* the threads other than t
Others(t) == Threads \ {t}

\* units the current call of t holds: its sends minus its receives
CallHeld(t) == owned[t] - base[t]

\* t is inside Wait, past g.m.Lock()
InWait(t) == pc[t] \in {"WaitSend", "WaitRecv", "WaitUnlock"}

\* C1: on a Gate of capacity max > 0 used with paired releases, the units
\* outstanding over all threads (those of a Wait or a partly finished Add
\* included) are exactly the tokens in the channel, and lie in [0, max].
CapacityInvariant ==
    (gate = "ok" /\ capc > 0 /\ Paired) =>
        /\ SumOwned(Threads) = c
        /\ 0 <= c
        /\ c <= capc
        /\ \A t \in Threads : owned[t] >= 0

\* C1 witness: the channel is full with one unit held by a Wait in its
\* acquiring loop and one by a partly finished Add(2)
CapacityWitness ==
    \E t \in Threads : \E u \in Others(t) :
        /\ capc = 2 /\ c = capc
        /\ pc[t] = "WaitSend" /\ i[t] = 1
        /\ pc[u] = "AddSend" /\ arg[u] = 2 /\ i[u] = 1

\* C2: a pending Lock can return exactly when the channel holds fewer than
\* capacity tokens, and its return adds one token; while the channel is full
\* no step makes it return.  With capacity 1 at most one thread holds a unit.
LockBlocking ==
    /\ [][\A t \in Threads :
            (gate = "ok" /\ capc > 0 /\ pc[t] = "Lock") =>
                IF c < capc
                THEN /\ ENABLED LockStep(t)
                     /\ pc'[t] = "idle" => (c' = c + 1 /\ owned'[t] = owned[t] + 1)
                ELSE pc'[t] = "Lock"]_vars
    /\ [](capc = 1 /\ Paired => Cardinality({t \in Threads : owned[t] > 0}) <= 1)

\* C2 witness: capacity 1, the first holder is about to Unlock and the second
\* Lock is pending on the full channel
LockBlockingWitness ==
    \E t \in Threads : \E u \in Others(t) :
        /\ capc = 1 /\ c = 1
        /\ pc[t] = "Lock"
        /\ pc[u] = "Unlock" /\ owned[u] = 1

\* C3: when Wait's acquiring loop is done, Wait itself holds every unit of
\* the capacity and no other thread holds any.
IdleObservation ==
    \A w \in Threads :
        (gate = "ok" /\ capc > 0 /\ Paired /\ pc[w] = "WaitSend" /\ ~WaitSendMore(w)) =>
            /\ CallHeld(w) = capc
            /\ c = capc
            /\ \A u \in Others(w) : owned[u] = 0

\* C3 witness: Wait has done its last acquire on a Gate of capacity 2 while
\* another thread is pending in Lock
IdleObservationWitness ==
    \E w \in Threads : \E u \in Others(w) :
        /\ capc = 2
        /\ pc[w] = "WaitSend" /\ i[w] = capc
        /\ pc[u] = "Lock"

\* C4: when Wait's releasing loop is done Wait holds nothing of what it
\* claimed: the channel holds exactly the units of the other threads, none
\* if no other thread acquired meanwhile, so capc - c Lock calls can still
\* complete without a release.
WaitRestores ==
    \A w \in Threads :
        (gate = "ok" /\ capc > 0 /\ pc[w] = "WaitUnlock") =>
            /\ CallHeld(w) = 0
            /\ Paired => c = SumOwned(Others(w))
            /\ (Paired /\ \A u \in Others(w) : owned[u] = 0) => c = 0

\* C4 witness: Wait is returning on a Gate of capacity 2 and another thread
\* acquired a unit during the releasing loop
WaitRestoresWitness ==
    \E w \in Threads : \E u \in Others(w) :
        /\ capc = 2
        /\ pc[w] = "WaitUnlock"
        /\ owned[u] = 1 /\ c = 1

\* the steps of a Wait call of thread w
WaitCall(w) ==
    \/ WaitLock(w)
    \/ WaitSend(w)
    \/ WaitSendExit(w)
    \/ WaitRecv(w)
    \/ WaitRecvExit(w)
    \/ WaitUnlock(w)

\* the current call of u, if any, has no send left to do
NoAcquireLeft(u) ==
    \/ pc[u] \in {"idle", "panicked", "Unlock", "Done", "AddRecv", "WaitRecv", "WaitUnlock"}
    \/ pc[u] = "AddSend" /\ ~AddSendMore(u)

\* C5 as claimed: as long as the channel holds no unit but those of the
\* Wait call (the others released all they acquired) and no other thread has
\* an acquire left to do, the Wait call's next step is enabled, so it never
\* blocks; it reaches its return with the channel empty.
WaitOnIdleAsClaimed ==
    \A w \in Threads :
        (/\ gate = "ok" /\ capc > 0
         /\ pc[w] \in {"WaitLock", "WaitSend", "WaitRecv", "WaitUnlock"}
         /\ c = CallHeld(w)
         /\ \A u \in Others(w) : NoAcquireLeft(u)) =>
            /\ ENABLED WaitCall(w)
            /\ pc[w] = "WaitUnlock" => c = 0

\* C5 amended: as long as the channel holds no unit but those of the Wait
\* call and no other Wait call holds the mutex g.m, the Wait call's next step
\* is enabled, so it never blocks; it reaches its return with the channel
\* empty.
WaitOnIdle ==
    \A w \in Threads :
        (/\ gate = "ok" /\ capc > 0
         /\ pc[w] \in {"WaitLock", "WaitSend", "WaitRecv", "WaitUnlock"}
         /\ m \in {0, w}
         /\ c = CallHeld(w)) =>
            /\ ENABLED WaitCall(w)
            /\ pc[w] = "WaitUnlock" => c = 0

\* C5 witness: Wait on a Gate of capacity 2 is half way through its
\* releasing loop, every other thread is between calls and holds nothing
WaitOnIdleWitness ==
    \E w \in Threads :
        /\ capc = 2
        /\ pc[w] = "WaitRecv" /\ i[w] = 1 /\ c = 1
        /\ \A u \in Others(w) : pc[u] = "idle" /\ owned[u] = 0

\* C6: at most one Wait call is past g.m.Lock(), it is the holder of the
\* mutex, and a Wait call still at g.m.Lock() has done no send or receive.
WaitSerialized ==
    /\ Cardinality({t \in Threads : InWait(t)}) <= 1
    /\ \A t \in Threads : InWait(t) => m = t
    /\ \A t \in Threads : pc[t] = "WaitLock" => CallHeld(t) = 0

\* C6 witness: one Wait is in its releasing loop and a second Wait is
\* pending at g.m.Lock()
WaitSerializedWitness ==
    \E t \in Threads : \E u \in Others(t) :
        /\ capc = 2
        /\ pc[t] = "WaitRecv" /\ i[t] = 1
        /\ pc[u] = "WaitLock"

\* C7: while a Wait call holds the mutex, in its acquiring or its releasing
\* loop, a pending Lock of another thread is enabled whenever the channel
\* holds fewer than capacity tokens, and a pending Unlock or Done of a thread
\* that holds a unit is enabled.
WaitDoesNotSerializeOthers ==
    \A w \in Threads : \A t \in Others(w) :
        (gate = "ok" /\ capc > 0 /\ m = w /\ pc[w] \in {"WaitSend", "WaitRecv"}) =>
            /\ (pc[t] = "Lock" /\ c < capc) => ENABLED LockStep(t)
            /\ (pc[t] = "Unlock" /\ Paired /\ owned[t] > 0) => ENABLED UnlockStep(t)
            /\ (pc[t] = "Done" /\ Paired /\ owned[t] > 0) => ENABLED DoneStep(t)

\* C7 witness: a Wait is in its releasing loop, holding the mutex, and a
\* Lock of another thread is pending with room in the channel
WaitDoesNotSerializeWitness ==
    \E w \in Threads : \E t \in Others(w) :
        /\ capc = 2
        /\ m = w /\ pc[w] = "WaitRecv" /\ i[w] = 1
        /\ pc[t] = "Lock" /\ c < capc

\* C8: an Add(n) whose loop is done has changed the units of its thread by
\* exactly n, each of its steps being the channel operation of one Lock (for
\* n > 0) or one Unlock (for n < 0); a Lock call changes them by exactly +1
\* and an Unlock or Done call by exactly -1, whatever the other threads do.
BatchEquivalence ==
    /\ [](\A t \in Threads :
            (gate = "ok" /\ capc > 0 /\ 0 - capc <= arg[t] /\ arg[t] <= capc) =>
                /\ (pc[t] = "AddSend" /\ ~AddSendMore(t)) => CallHeld(t) = arg[t]
                /\ (pc[t] = "AddRecv" /\ ~AddRecvMore(t)) => CallHeld(t) = arg[t])
    /\ [][\A t \in Threads :
            /\ (pc[t] = "AddSend" /\ pc'[t] = "AddSend" /\ i'[t] = i[t] + 1) =>
                   (c < capc /\ c' = c + 1 /\ owned'[t] = owned[t] + 1)
            /\ (pc[t] = "AddRecv" /\ pc'[t] = "AddRecv" /\ i'[t] = i[t] + 1) =>
                   (c > 0 /\ c' = c - 1 /\ owned'[t] = owned[t] - 1)
            /\ (pc[t] = "Lock" /\ pc'[t] = "idle" /\ capc > 0) =>
                   (c < capc /\ c' = c + 1 /\ owned'[t] = owned[t] + 1)
            /\ (pc[t] \in {"Unlock", "Done"} /\ pc'[t] = "idle" /\ capc > 0) =>
                   (c > 0 /\ c' = c - 1 /\ owned'[t] = owned[t] - 1)]_vars

\* C8 witness: an Add(2) has finished its loop while the Add(-1) of another
\* thread, interleaved with it, has finished its own
BatchEquivalenceWitness ==
    \E t \in Threads : \E u \in Others(t) :
        /\ capc = 2
        /\ pc[t] = "AddSend" /\ arg[t] = 2 /\ i[t] = 2
        /\ pc[u] = "AddRecv" /\ arg[u] = 0 - 1 /\ i[u] = 1

\* C9: Add(n) with n > c or n < -c panics before any send or receive, so
\* such a call is never in one of the loops of Add and a panicked call holds
\* nothing; Add(n) with |n| <= c never panics.
RangeEnforced ==
    \A t \in Threads :
        /\ pc[t] \in {"AddSend", "AddRecv"} => (0 - capc <= arg[t] /\ arg[t] <= capc)
        /\ pc[t] = "panicked" =>
               /\ arg[t] > capc \/ arg[t] < 0 - capc
               /\ CallHeld(t) = 0

\* C10: New(max) panics for every max <= 0 and returns no Gate; for every
\* max > 0 it returns a Gate of capacity max.
NewRejectsNonPositive ==
    gate # "nil" =>
        /\ newArg <= 0 => gate = "panic"
        /\ newArg > 0 => (gate = "ok" /\ capc = newArg)

\* t is at a receive of a release call: Unlock, Done or a unit of Add(n < 0)
AtRelease(t) ==
    \/ pc[t] \in {"Unlock", "Done"}
    \/ pc[t] = "AddRecv" /\ AddRecvMore(t)

\* the receive t is at completes in this step
ReleaseCompletes(t) ==
    \/ pc[t] \in {"Unlock", "Done"} /\ pc'[t] # pc[t]
    \/ pc[t] = "AddRecv" /\ (pc'[t] # pc[t] \/ i'[t] # i[t])

\* C11 as claimed: on a Gate of capacity above 0, a release begun while the
\* channel is empty never completes; it raises no error and the number of tokens stays in
\* [0, capacity] and equal to the units the threads hold.
OverReleaseBlocksForever ==
    /\ [][\A t \in Threads :
            (capc > 0 /\ t \in onEmpty /\ AtRelease(t)) =>
                (~ReleaseCompletes(t) /\ pc'[t] # "panicked")]_vars
    /\ [](0 <= c /\ c <= capc /\ SumOwned(Threads) = c)

\* C11 amended: a release begun while the channel is empty does not complete
\* as long as the channel is empty (on the unbuffered channel of capacity 0:
\* unless the Lock of another thread returns in the same step); it raises no
\* error and the number of tokens stays in [0, capacity] and equal to the
\* units the threads hold.
OverReleaseBlocksWhileEmpty ==
    /\ [][\A t \in Threads :
            (t \in onEmpty /\ AtRelease(t)) =>
                /\ pc'[t] # "panicked"
                /\ (c = 0 /\ ReleaseCompletes(t)) =>
                       /\ capc = 0
                       /\ \E s \in Others(t) : pc[s] = "Lock" /\ pc'[s] = "idle"]_vars
    /\ [](0 <= c /\ c <= capc /\ SumOwned(Threads) = c)

\* C11 witness: an Unlock begun on the empty channel of a Gate of capacity 2
\* by a thread that holds nothing is pending
OverReleaseWitness ==
    \E t \in Threads :
        /\ capc = 2 /\ c = 0
        /\ t \in onEmpty /\ pc[t] = "Unlock" /\ owned[t] = 0

\* two Add calls of t and u each hold part of the capacity and need more,
\* and the channel is full of their units
AddDeadlock(t, u) ==
    /\ gate = "ok" /\ t # u
    /\ pc[t] = "AddSend" /\ AddSendMore(t) /\ CallHeld(t) >= 1
    /\ pc[u] = "AddSend" /\ AddSendMore(u) /\ CallHeld(u) >= 1
    /\ c = capc
    /\ owned[t] + owned[u] = capc

\* C12: Add(n) claims its units one at a time (each step of its acquiring
\* loop adds one token, and steps of other threads come between them); once
\* two Add calls each hold part of the capacity with the channel full of
\* their units, neither has an enabled step and that state is never left.
AddNotAtomic ==
    /\ [][\A t \in Threads :
            (pc[t] = "AddSend" /\ i'[t] # i[t] /\ pc'[t] = "AddSend") =>
                (i'[t] = i[t] + 1 /\ c' = c + 1)]_vars
    /\ [](\A t \in Threads : \A u \in Threads :
            AddDeadlock(t, u) =>
                /\ arg[t] + arg[u] > capc
                /\ ~ENABLED (AddSend(t) \/ AddReturn(t))
                /\ ~ENABLED (AddSend(u) \/ AddReturn(u)))
    /\ [][\A t \in Threads : \A u \in Threads :
            AddDeadlock(t, u) => AddDeadlock(t, u)']_vars

\* C12 witness: two Add(2) calls on a Gate of capacity 2 hold one unit each
AddDeadlockWitness ==
    \E t \in Threads : \E u \in Others(t) :
        /\ capc = 2
        /\ arg[t] = 2 /\ arg[u] = 2 /\ i[t] = 1 /\ i[u] = 1
        /\ AddDeadlock(t, u)

(* ---------------------------------------------------------------------- *)
(* One Wait caller against one worker                                      *)
(* ---------------------------------------------------------------------- *)

\* the thread that calls Wait
Waiter == 1

\* the thread that repeats a single-unit acquire (Lock, Add(1)) and then a
\* single-unit release (Unlock, Done, Add(-1))
Worker == 2

NewPositive == \E max \in 1..MaxCap : New(max)

WorkerCall ==
    \/ owned[Worker] = 0 /\ Call(Worker, "Lock")
    \/ owned[Worker] = 0 /\ CallAdd(Worker, 1)
    \/ owned[Worker] = 1 /\ Call(Worker, "Unlock")
    \/ owned[Worker] = 1 /\ Call(Worker, "Done")
    \/ owned[Worker] = 1 /\ CallAdd(Worker, 0 - 1)

WorkerStep ==
    \/ LockStep(Worker)
    \/ UnlockStep(Worker)
    \/ DoneStep(Worker)
    \/ AddSend(Worker)
    \/ AddRecv(Worker)
    \/ AddReturn(Worker)

\* the steps of Wait other than its sends
WaiterLocal ==
    \/ WaitLock(Waiter)
    \/ WaitSendExit(Waiter)
    \/ WaitRecv(Waiter)
    \/ WaitRecvExit(Waiter)
    \/ WaitUnlock(Waiter)

NextLive ==
    \/ NewPositive
    \/ Call(Waiter, "WaitLock")
    \/ WaiterLocal
    \/ WaitSend(Waiter)
    \/ WorkerCall
    \/ WorkerStep

\* Every goroutine that can run does run; a send pending on a channel that
\* gets room again and again is served (a receive on a full channel hands
\* its slot to the sender parked on it).
LiveFairness ==
    /\ WF_vars(NewPositive)
    /\ WF_vars(WorkerCall)
    /\ WF_vars(WorkerStep)
    /\ WF_vars(WaiterLocal)
    /\ SF_vars(WaitSend(Waiter))

SpecLive == Init /\ [][NextLive]_vars /\ LiveFairness

\* C13: with capacity 2, one Wait caller and one other thread that repeats
\* Lock then Unlock, every Wait call eventually returns.
WaitEventuallyReturns ==
    (pc[Waiter] \in {"WaitLock", "WaitSend", "WaitRecv", "WaitUnlock"}) ~> (pc[Waiter] = "idle")

\* C13 witness: the Wait call holds one unit and is blocked on the full
\* channel by the unit the worker holds
WaitEventuallyReturnsWitness ==
    /\ capc = 2 /\ c = capc
    /\ pc[Waiter] = "WaitSend" /\ i[Waiter] = 1
    /\ owned[Worker] = 1

\* t is inside Add, past the range check
InAdd(t) == pc[t] \in {"AddSend", "AddRecv"}

\* C14: Add(0) does not panic, performs no send and no receive, is never
\* blocked (its return is enabled as soon as it is called), and its call and
\* its return leave the channel, the units of the caller and the mutex of
\* Wait unchanged.
AddZeroNoOp ==
    /\ [](\A t \in Threads :
            /\ ~(pc[t] = "panicked" /\ arg[t] = 0)
            /\ (InAdd(t) /\ arg[t] = 0) =>
                   /\ i[t] = 0 /\ CallHeld(t) = 0
                   /\ ~ENABLED AddSend(t)
                   /\ ~ENABLED AddRecv(t)
                   /\ ENABLED AddReturn(t))
    /\ [][\A t \in Threads :
            (\/ pc[t] = "idle" /\ InAdd(t)' /\ arg'[t] = 0
             \/ InAdd(t) /\ arg[t] = 0 /\ pc'[t] # pc[t]) =>
                /\ c' = c /\ m' = m /\ owned' = owned
                /\ pc'[t] \in {"idle", "AddRecv"}]_vars

\* C14 witness: an Add(0) call in progress while the channel holds tokens of
\* another thread
AddZeroWitness ==
    \E t \in Threads : \E u \in Others(t) :
        /\ InAdd(t) /\ arg[t] = 0
        /\ c > 0 /\ owned[u] > 0

\* C15: every call Add(n) with |n| > capacity panics, the least integer
\* included: no call with such an argument passes the range check, whatever
\* the call is doing.
RangeCheckCoversMinInt ==
    \A t \in Threads :
        (gate = "ok" /\ pc[t] # "idle" /\ (arg[t] > capc \/ arg[t] < 0 - capc)) =>
            pc[t] = "panicked"

\* C16: with paired releases, a Wait call that has finished its acquires
\* and has receives left always finds a token: its next receive is enabled,
\* whatever Lock, Unlock, Done and Add calls run beside it.
WaitReleaseNeverBlocks ==
    \A w \in Threads :
        (Paired /\ pc[w] = "WaitRecv" /\ WaitRecvMore(w)) =>
            /\ c >= capc - i[w]
            /\ c > 0
            /\ ENABLED WaitRecv(w)

\* C16 witness: Wait has released one unit of two and another thread has
\* taken it
WaitReleaseWitness ==
    \E w \in Threads : \E u \in Others(w) :
        /\ capc = 2 /\ pc[w] = "WaitRecv" /\ i[w] = 1
        /\ owned[u] = 1 /\ c = 2

(* ---------------------------------------------------------------------- *)
(* Wait callers and workers that hold at most one unit                     *)
(* ---------------------------------------------------------------------- *)

\* a thread that holds nothing calls Wait, or acquires one unit
SingleAcquireCall(t) ==
    /\ owned[t] = 0
    /\ \/ Call(t, "WaitLock")
       \/ Call(t, "Lock")
       \/ CallAdd(t, 1)

\* a thread that holds its unit releases it
SingleReleaseCall(t) ==
    /\ owned[t] = 1
    /\ \/ Call(t, "Unlock")
       \/ Call(t, "Done")
       \/ CallAdd(t, 0 - 1)

\* a step of a call in progress
CallStep(t) ==
    \/ LockStep(t)
    \/ UnlockStep(t)
    \/ DoneStep(t)
    \/ AddSend(t)
    \/ AddRecv(t)
    \/ AddReturn(t)
    \/ WaitCall(t)

NextSingle ==
    \/ \E max \in (0 - MaxCap)..MaxCap : New(max)
    \/ \E t \in Threads : SingleAcquireCall(t)
    \/ \E t \in Threads : SingleReleaseCall(t)
    \/ \E t \in Threads : CallStep(t)

SpecSingle == Init /\ [][NextSingle]_vars

\* C17: on a Gate of positive capacity used by Wait callers and by workers
\* that hold at most one unit, no reachable state is a deadlock: whenever a
\* call is unfinished, some call in progress can take a step or some worker
\* that holds its unit can call its release.
SingleUnitNoDeadlock ==
    /\ \A t \in Threads : owned[t] <= 1 \/ InWait(t)
    /\ (gate = "ok" /\ capc > 0 /\ \E t \in Threads : pc[t] # "idle") =>
           \/ \E t \in Threads : ENABLED CallStep(t)
           \/ \E t \in Threads : pc[t] = "idle" /\ ENABLED SingleReleaseCall(t)

\* C17 witness: a Wait call blocked on the full channel, and the one unit it
\* lacks held by a worker that has not yet called its release
SingleUnitWitness ==
    \E w \in Threads : \E u \in Others(w) :
        /\ capc = 1 /\ c = 1
        /\ pc[w] = "WaitSend" /\ i[w] = 0
        /\ pc[u] = "idle" /\ owned[u] = 1
        /\ ~ENABLED CallStep(w)

\* u is acquiring more than one unit: it is in the acquiring loop of
\* Add(n >= 2) holding a part, or in Lock while it holds a unit already
MultiAcquirerBlocked(u) ==
    \/ pc[u] = "AddSend" /\ arg[u] >= 2 /\ AddSendMore(u) /\ CallHeld(u) >= 1
    \/ pc[u] = "Lock" /\ owned[u] >= 1

\* Wait call w holds a part of the capacity in its acquiring loop, u holds
\* the rest and is claiming one more, and the channel is full
WaitDeadlock(w, u) ==
    /\ gate = "ok" /\ w # u /\ capc >= 2
    /\ pc[w] = "WaitSend" /\ WaitSendMore(w) /\ i[w] >= 1
    /\ MultiAcquirerBlocked(u)
    /\ c = capc
    /\ owned[w] + owned[u] = capc

\* C18: when a Wait call holds a part of the capacity in its acquiring
\* phase and a thread acquiring several units holds the rest, the channel
\* being full, neither has an enabled step, and (callers releasing only what
\* they hold) no step of any thread ever ends that state.
WaitMultiAcquirerDeadlock ==
    /\ [](\A w \in Threads : \A u \in Threads :
            WaitDeadlock(w, u) =>
                /\ ~ENABLED WaitCall(w)
                /\ ~ENABLED (LockStep(u) \/ AddSend(u) \/ AddReturn(u)))
    /\ [][\A w \in Threads : \A u \in Threads :
            WaitDeadlock(w, u) => WaitDeadlock(w, u)']_vars

\* C18 witness: on a Gate of capacity 2, Wait holds one unit and a thread
\* that holds the other is blocked in its second Lock
WaitDeadlockWitness ==
    \E w \in Threads : \E u \in Others(w) :
        /\ capc = 2 /\ i[w] = 1
        /\ pc[u] = "Lock" /\ owned[u] = 1
        /\ WaitDeadlock(w, u)

\* C18 witness with Add: Wait holds one unit and Add(2) the other
WaitDeadlockAddWitness ==
    \E w \in Threads : \E u \in Others(w) :
        /\ pc[u] = "AddSend" /\ arg[u] = 2
        /\ WaitDeadlock(w, u)

====
